---- MODULE Spec2Model ----
(***************************************************************************)
(* Model of TensorforceModel (tensorforce/core/models/tensorforce.py):     *)
(* experience buffering (core_experience), update scheduling               *)
(* (core_observe) and batch retrieval (core_update).                       *)
(*                                                                         *)
(* The Estimator staging buffer, the Memory and the act/observe entry      *)
(* points of the Model base class are collaborators whose code is not part *)
(* of tensorforce.py; they are modelled from their documented contracts.   *)
(***************************************************************************)
EXTENDS Integers, Sequences, FiniteSets

\* ------------------------------------------------------------------ bounds
MaxT == 3            \* records created per run (acted or passed to experience)
MaxBatchSize == 3    \* largest update batch_size
MaxStart == 3        \* largest configured update start
MaxHorizon == 1      \* largest past / future horizon
MaxWindow == 2       \* largest estimator staging capacity
MaxBuffer == 2       \* largest number of acted, not yet observed timesteps
MaxManual == 1       \* manual update() calls per run
ScenSteps == 20      \* timesteps of the scenario run
ScenPast == 2        \* largest policy past horizon of the scenario run
MaxParallel == 2     \* parallel interactions of the entry-point run
MaxPasses == 2       \* optimize passes of the optimization run
MaxCapacityHorizon == 3  \* largest horizon of the capacity run
MaxFailingSteps == 6 \* records created per run of the failing run

VARIABLES
    cfg,            \* resolved construction arguments (never change)
    timestep,       \* global timestep counter
    episode,        \* global episode counter
    update,         \* global update counter
    last_update,    \* TensorforceModel.last_update
    buffer_index,   \* per parallel interaction: acted timesteps waiting for observe
    staging,        \* estimator staging buffer (sequence of records)
    committed,      \* every record handed to memory.enqueue, in order
    nrec,           \* records ingested by core_experience so far
    open_ep,        \* index of the episode the next ingested record belongs to
    firings,        \* the unit counter's value at each scheduled update pass
    manual,         \* manual (api_update) update passes so far
    last,           \* what the most recent call did
    topology,       \* baseline policy / objective / optimizer arguments
    opt,            \* construction outcome and progress of the optimize pass
    mapping         \* keys of the update and reward_estimation arguments

vars == <<cfg, timestep, episode, update, last_update, buffer_index, staging,
          committed, nrec, open_ep, firings, manual, last, topology, opt,
          mapping>>

\* ------------------------------------------------------------------ helpers
Max(a, b) == IF a >= b THEN a ELSE b

Min(a, b) == IF a <= b THEN a ELSE b

Suffix(s, n) == SubSeq(s, Len(s) - Min(n, Len(s)) + 1, Len(s))

Prefix(s, n) == SubSeq(s, 1, Min(n, Len(s)))

RECURSIVE SumTo(_, _)
SumTo(f, n) == IF n = 0 THEN 0 ELSE f[n] + SumTo(f, n - 1)

\* api_experience: tf.math.reduce_sum(input_tensor=self.buffer_index, axis=0)
BufferSum(index) == SumTo(index, Len(index))

\* ------------------------------------------------------------ configuration
\* update['unit'] (line 110)
Units == {"timesteps", "episodes"}

\* The resolved construction arguments the scheduler and the batch retrieval
\* read: update unit / batch_size / frequency ('never' is periodic = FALSE) /
\* start, whether a separate baseline policy exists, the on-policy past
\* horizons of policy and baseline, the estimator's future horizon, the
\* capacity of the estimator's staging buffer and the number of parallel
\* interactions (one buffer index each).
Configs ==
    { c \in [ unit : Units,
              parallel : {1},
              periodic : BOOLEAN,
              batch_size : {1, MaxBatchSize},
              frequency : 1..Max(2, MaxBatchSize),
              start : {0, MaxStart},
              separate_baseline_policy : BOOLEAN,
              policy_past : {0, MaxHorizon},
              baseline_past : {0, MaxHorizon},
              future_horizon : {0, MaxHorizon},
              window : {1, MaxWindow} ] :
        \* frequency: min_value=1, max_value=max(2, batch_size.max_value())
        /\ c.frequency <= Max(2, c.batch_size)
        \* frequency 'never': no update_frequency and no update_start module
        /\ (~c.periodic => (c.frequency = 1 /\ c.start = 0))
        \* no baseline policy: no baseline horizon
        /\ (~c.separate_baseline_policy => c.baseline_past = 0)
        \* the horizons are read in timesteps mode only
        /\ (c.unit = "episodes" =>
                /\ ~c.separate_baseline_policy
                /\ c.policy_past = 0 /\ c.future_horizon = 0) }

\* ---------------------------------------------------------------- scheduler
\* core_observe, timesteps branch: the past horizon that enters the clamp
ObservePastHorizon(c) ==
    IF c.separate_baseline_policy
    THEN Max(c.policy_past, c.baseline_past - c.future_horizon)
    ELSE c.policy_past

\* ClampedStart with the "+ one" of the timesteps clamp left out
ClampedStartOffByOne(c) ==
    IF c.unit = "timesteps"
    THEN Max(c.start, c.frequency + ObservePastHorizon(c) + c.future_horizon)
    ELSE Max(c.start, c.frequency)

\* ClampedStart clamping to the frequency alone in both modes
ClampedStartNoHorizon(c) == Max(c.start, c.frequency)

\* core_observe: start after tf.math.maximum
ClampedStart(c) ==
    IF c.unit = "timesteps"
    THEN Max(c.start, c.frequency + ObservePastHorizon(c) + c.future_horizon + 1)
    ELSE Max(c.start, c.frequency)

\* ShiftedUnit reading the timestep counter in both modes
ShiftedUnitTimestepOnly(c, t, e) == t - ClampedStart(c)

\* core_observe: unit = unit - start
ShiftedUnit(c, t, e) ==
    (IF c.unit = "timesteps" THEN t ELSE e) - ClampedStart(c)

\* IsFrequency with last_update compared by greater-or-equal
IsFrequencyAtLeast(c, unit, lu) ==
    /\ unit % c.frequency = 0
    /\ unit >= lu

\* IsFrequency without the comparison against last_update
IsFrequencyNoGuard(c, unit, lu) == unit % c.frequency = 0

\* core_observe: is_frequency
IsFrequency(c, unit, lu) ==
    /\ unit % c.frequency = 0
    /\ unit > lu

\* core_update: the past horizon passed to retrieve_timesteps
UpdatePastHorizon(c) ==
    IF c.separate_baseline_policy
    THEN Max(c.policy_past, c.baseline_past)
    ELSE c.policy_past

\* ------------------------------------------------------ estimator and memory
\* A record: its ingestion number, the episode it belongs to, its terminal flag
MakeBatch(first, flags, ep, par) ==
    [i \in 1..Len(flags) |->
        [id |-> first + i - 1, ep |-> ep, terminal |-> flags[i], par |-> par]]

\* Estimator.enqueue: append to the staging buffer; what no longer fits the
\* buffer's capacity is evicted, oldest first, and returned
EstimatorEnqueue(stg, batch, window) ==
    LET all == stg \o batch
        n == Max(0, Len(all) - window)
    IN [staging |-> Suffix(all, Len(all) - n), overwritten |-> Prefix(all, n)]

\* Estimator.reset: every staged entry is returned and the buffer is empty
EstimatorReset(stg) ==
    [staging |-> << >>, values |-> stg]

\* Memory.enqueue: append to the store
MemoryEnqueue(mem, values) == mem \o values

\* __init__, "Memory": the capacity requested for the memory
MinCapacity(c) ==
    IF c.unit = "timesteps"
    THEN c.batch_size + 1 + ObservePastHorizon(c) + c.future_horizon
    ELSE (c.batch_size + 1) * MaxT

\* The memory is a ring of that capacity: it holds the newest records
MemoryRecords(c, mem) == Suffix(mem, MinCapacity(c))

\* Memory.retrieve_timesteps: the positions of the store that have
\* past_horizon predecessors and future_horizon successors in it
ValidTimesteps(c, mem, past, future) ==
    { i \in 1..Len(MemoryRecords(c, mem)) :
        i > past /\ i + future <= Len(MemoryRecords(c, mem)) }

\* ExperienceValues committing only the reset values at a terminal
ExperienceValuesResetOnly(overwritten, reset_values, is_terminal) ==
    IF is_terminal THEN reset_values ELSE overwritten

\* ExperienceValues concatenating in the opposite order
ExperienceValuesSwapped(overwritten, reset_values, is_terminal) ==
    IF is_terminal THEN reset_values \o overwritten ELSE overwritten

\* ----------------------------------------------------------- core_experience
\* core_experience, true_fn / false_fn: the values to commit
ExperienceValues(overwritten, reset_values, is_terminal) ==
    IF is_terminal THEN overwritten \o reset_values ELSE overwritten

\* StoreCondition with >= in place of >
StoreConditionAlways(num_values) == num_values >= 0

\* core_experience: pred of the cond around memory.enqueue
StoreCondition(num_values) == num_values > 0

\* CoreExperience without the terminal branch: reset is never called
CoreExperienceNoReset(c, stg, mem, batch) ==
    LET enq == EstimatorEnqueue(stg, batch, c.window)
        values == enq.overwritten
        stored == StoreCondition(Len(values))
    IN [ staging |-> enq.staging,
         committed |-> IF stored THEN MemoryEnqueue(mem, values) ELSE mem,
         stored |-> stored,
         values |-> values,
         evicted |-> enq.overwritten,
         flushed |-> << >>,
         reset_called |-> FALSE ]

\* core_experience on a batch: the estimator and memory after it, and what it did
CoreExperience(c, stg, mem, batch) ==
    LET enq == EstimatorEnqueue(stg, batch, c.window)
        is_terminal == batch[Len(batch)].terminal > 0
        rst == EstimatorReset(enq.staging)
        values == ExperienceValues(enq.overwritten, rst.values, is_terminal)
        stored == StoreCondition(Len(values))
    IN [ staging |-> IF is_terminal THEN rst.staging ELSE enq.staging,
         committed |-> IF stored THEN MemoryEnqueue(mem, values) ELSE mem,
         stored |-> stored,
         values |-> values,
         evicted |-> enq.overwritten,
         flushed |-> IF is_terminal THEN rst.values ELSE << >>,
         reset_called |-> is_terminal ]

\* --------------------------------------------------------------- core_update
\* core_update: the batch it asks the memory for
CoreUpdate(c, mem) ==
    LET past == IF c.unit = "timesteps" THEN UpdatePastHorizon(c) ELSE 0
        future == IF c.unit = "timesteps" THEN c.future_horizon ELSE 0
    IN [ requested |-> c.batch_size,
         past |-> past,
         future |-> future,
         held |-> Len(MemoryRecords(c, mem)),
         valid |-> Cardinality(ValidTimesteps(c, mem, past, future)) ]

\* ObserveFires without the early return for frequency 'never'
ObserveFiresAlways(c, t, e, lu) == IsFrequency(c, ShiftedUnit(c, t, e), lu)

\* -------------------------------------------------------------- core_observe
\* core_observe: "If no periodic update" / the cond on is_frequency
ObserveFires(c, t, e, lu) ==
    /\ c.periodic
    /\ IsFrequency(c, ShiftedUnit(c, t, e), lu)

\* PerformUpdateAssign storing the unit counter instead of the shifted unit
PerformUpdateAssignCounter(c, t, e) == IF c.unit = "timesteps" THEN t ELSE e

\* PerformUpdateAssign storing the previous window's unit
PerformUpdateAssignPrevious(c, t, e) == ShiftedUnit(c, t, e) - c.frequency

\* perform_update: the value assigned to last_update
PerformUpdateAssign(c, t, e) == ShiftedUnit(c, t, e)

\* -------------------------------------------------------- baseline topology
\* baseline_optimizer: None, a float (loss weight) or an optimizer module
BaselineOptimizers == {"none", "weight", "module"}

\* The constructor arguments baseline_policy, baseline_objective (given or
\* None), baseline_optimizer, and the estimate_advantage key of
\* reward_estimation (absent, True or False)
Topologies ==
    [ baseline_policy : BOOLEAN,
      baseline_objective : BOOLEAN,
      baseline_optimizer : BaselineOptimizers,
      estimate_advantage : {"unset", "true", "false"} ]

\* self.baseline_optimizer is not None
HasOptimizerModule(tp) == tp.baseline_optimizer = "module"

\* BaselineOptimizerValid without the assertion of the float branch
BaselineOptimizerValidNoWeightCheck(tp) ==
    tp.baseline_optimizer = "module" =>
        (tp.baseline_objective \/ tp.baseline_policy)

\* __init__, "Baseline optimizer": the assertions of the float and the
\* module branch
BaselineOptimizerValid(tp) ==
    CASE tp.baseline_optimizer = "none" -> TRUE
      [] tp.baseline_optimizer = "weight" -> tp.baseline_objective
      [] tp.baseline_optimizer = "module" ->
            tp.baseline_objective \/ tp.baseline_policy

\* BaselineLossWeight giving 1.0 whenever no baseline optimizer is passed
BaselineLossWeightOptimizerOnly(tp) ==
    CASE tp.baseline_optimizer = "none" -> "one"
      [] tp.baseline_optimizer = "weight" -> "given"
      [] tp.baseline_optimizer = "module" -> "none"

\* self.baseline_loss_weight: None, 1.0 or the given float
BaselineLossWeight(tp) ==
    CASE tp.baseline_optimizer = "none" ->
            IF tp.baseline_objective THEN "one" ELSE "none"
      [] tp.baseline_optimizer = "weight" -> "given"
      [] tp.baseline_optimizer = "module" -> "none"

\* IsTrainable not looking at the baseline optimizer
IsTrainableAnyOptimizer(tp) == tp.baseline_policy \/ tp.baseline_objective

\* __init__, "Baseline": is_trainable
IsTrainable(tp) ==
    (tp.baseline_policy \/ tp.baseline_objective) /\ ~HasOptimizerModule(tp)

\* --------------------------------------------------- argument mappings
ValidUpdateKeys == {"batch_size", "frequency", "start", "unit"}

ValidRewardKeys ==
    {"discount", "estimate_actions", "estimate_advantage", "estimate_horizon",
     "estimate_terminal", "horizon"}

\* The update and reward_estimation mappings as passed: their key sets, and
\* the value of update['unit'] where it matters
Mappings ==
    { m \in [ update : SUBSET (ValidUpdateKeys \cup {"other"}),
              unit : {"timesteps", "episodes", "other"},
              reward_estimation : SUBSET (ValidRewardKeys \cup {"capacity"}) ] :
        "unit" \notin m.update => m.unit = "timesteps" }

\* __init__, "Update mode": every key from {batch_size,frequency,start,unit}
UpdateKeysValid(m) == \A key \in m.update : key \in ValidUpdateKeys

\* RewardKeysValid of a constructor that never looks at the keys
RewardKeysUnchecked(m) == TRUE

\* __init__, "Estimator": every key from the six of reward_estimation
RewardKeysValid(m) == \A key \in m.reward_estimation : key \in ValidRewardKeys

\* The mappings of the other runs: unit and batch_size given, horizon given,
\* estimate_advantage given iff the topology carries a value for it
MappingFor(tp) ==
    [ update |-> {"unit", "batch_size", "frequency", "start"},
      unit |-> "timesteps",
      reward_estimation |->
          {"horizon"} \cup (IF tp.estimate_advantage = "unset"
                             THEN {} ELSE {"estimate_advantage"}) ]

\* TrainableValid with the estimate_advantage key defaulting to False
TrainableValidDefaultFalse(tp) ==
    IsTrainable(tp) => (tp.baseline_objective \/ tp.estimate_advantage = "true")

\* __init__, "Baseline": the assertion of the trainable branch, with
\* reward_estimation.get('estimate_advantage', True)
TrainableValid(tp) ==
    IsTrainable(tp) => (tp.baseline_objective \/ tp.estimate_advantage # "false")

ConstructionValid(tp) == BaselineOptimizerValid(tp) /\ TrainableValid(tp)

\* __init__: the first check that fails, in the order of the code, or "none"
ConstructionError(m, tp) ==
    IF ~UpdateKeysValid(m) THEN "update"
    ELSE IF "unit" \notin m.update THEN "update[unit]"
    ELSE IF m.unit \notin {"timesteps", "episodes"} THEN "update[unit]"
    ELSE IF "batch_size" \notin m.update THEN "update[batch_size]"
    ELSE IF ~ConstructionValid(tp) THEN "assertion"
    ELSE IF ~RewardKeysValid(m) THEN "reward_estimation"
    ELSE IF "horizon" \notin m.reward_estimation THEN "reward_estimation[horizon]"
    ELSE "none"

\* ResolveUpdate with the frequency defaulting to 1
ResolveUpdateFrequencyOne(m, c) ==
    IF "frequency" \in m.update /\ ~c.periodic
    THEN [ periodic |-> FALSE, frequency |-> 1, start |-> 0,
           max_frequency |-> Max(2, c.batch_size) ]
    ELSE [ periodic |-> TRUE,
           frequency |-> IF "frequency" \in m.update THEN c.frequency ELSE 1,
           start |-> IF "start" \in m.update THEN c.start ELSE 0,
           max_frequency |-> Max(2, c.batch_size) ]

\* __init__, "Update mode": the update_frequency and update_start modules.
\* c carries the values of the update mapping where its keys are present
\* (~c.periodic: frequency is 'never'); without periodic updates neither
\* module exists, written as frequency 1 and start 0
ResolveUpdate(m, c) ==
    IF "frequency" \in m.update /\ ~c.periodic
    THEN [ periodic |-> FALSE, frequency |-> 1, start |-> 0,
           max_frequency |-> Max(2, c.batch_size) ]
    ELSE [ periodic |-> TRUE,
           frequency |-> IF "frequency" \in m.update
                         THEN c.frequency ELSE c.batch_size,
           start |-> IF "start" \in m.update THEN c.start ELSE 0,
           max_frequency |-> Max(2, c.batch_size) ]

\* The update_frequency parameter is above the max_value it is created with
FrequencyExceeds(m, c) ==
    /\ ResolveUpdate(m, c).periodic
    /\ ResolveUpdate(m, c).frequency > ResolveUpdate(m, c).max_frequency

\* __init__: the first check that fails with the update modules included,
\* which are created after the update keys are checked and before the
\* baseline assertions
ConstructError(m, c, tp) ==
    IF ConstructionError(m, tp) \in {"update", "update[unit]", "update[batch_size]"}
    THEN ConstructionError(m, tp)
    ELSE IF FrequencyExceeds(m, c) THEN "update[frequency]"
    ELSE ConstructionError(m, tp)

\* __init__, "Estimator": the default of estimate_horizon
EstimateHorizonDefault(tp) ==
    IF ~tp.baseline_policy /\ ~HasOptimizerModule(tp) /\ ~tp.baseline_objective
    THEN "false" ELSE "late"

\* __init__, "Estimator": the default of estimate_advantage
EstimateAdvantageDefault(tp) ==
    tp.baseline_policy /\ ~tp.baseline_objective /\ ~HasOptimizerModule(tp)

\* The value a key of reward_estimation carries: known for
\* estimate_advantage, "given" for the others
RewardValue(tp, key) ==
    IF key = "estimate_advantage" THEN tp.estimate_advantage ELSE "given"

\* EstimatorArguments with the topology's defaults taking precedence over
\* the estimate_horizon and estimate_advantage keys
EstimatorArgumentsDefaultsFirst(m, tp) ==
    [ horizon |-> "given",
      discount |-> IF "discount" \in m.reward_estimation THEN "given" ELSE "1.0",
      estimate_horizon |-> EstimateHorizonDefault(tp),
      estimate_actions |->
          IF "estimate_actions" \in m.reward_estimation THEN "given" ELSE "false",
      estimate_terminal |->
          IF "estimate_terminal" \in m.reward_estimation THEN "given" ELSE "false",
      estimate_advantage |->
          IF EstimateAdvantageDefault(tp) THEN "true" ELSE "false" ]

\* __init__, "Estimator": the arguments the estimator is constructed with,
\* reward_estimation['horizon'] and reward_estimation.get(key, default)
EstimatorArguments(m, tp) ==
    [ horizon |-> RewardValue(tp, "horizon"),
      discount |->
          IF "discount" \in m.reward_estimation
          THEN RewardValue(tp, "discount") ELSE "1.0",
      estimate_horizon |->
          IF "estimate_horizon" \in m.reward_estimation
          THEN RewardValue(tp, "estimate_horizon") ELSE EstimateHorizonDefault(tp),
      estimate_actions |->
          IF "estimate_actions" \in m.reward_estimation
          THEN RewardValue(tp, "estimate_actions") ELSE "false",
      estimate_terminal |->
          IF "estimate_terminal" \in m.reward_estimation
          THEN RewardValue(tp, "estimate_terminal") ELSE "false",
      estimate_advantage |->
          IF "estimate_advantage" \in m.reward_estimation
          THEN RewardValue(tp, "estimate_advantage")
          ELSE IF EstimateAdvantageDefault(tp) THEN "true" ELSE "false" ]

\* __init__, "Baseline": what the attribute self.baseline evaluates to.  It
\* is assigned only when a baseline policy is given; otherwise the lookup
\* falls through to the Model base class, which either resolves it (to the
\* main policy, as the overview table has it) or raises an AttributeError
BaselineAttribute(tp) ==
    IF tp.baseline_policy THEN {"baseline"} ELSE {"policy", "unset"}

\* The baseline argument of the estimator in optimize: self.baseline with a
\* separate baseline policy, self.policy otherwise
BaselineNetwork(tp) == IF tp.baseline_policy THEN "baseline" ELSE "policy"

\* MainVariables with the baseline module always trainable
MainVariablesWithBaseline(tp) ==
    {"policy"} \cup (IF tp.baseline_policy THEN {"baseline"} ELSE {})

\* self.trainable_variables: the policy's, and those of a baseline module
\* added with is_trainable
MainVariables(tp) ==
    {"policy"} \cup
    (IF tp.baseline_policy /\ IsTrainable(tp) THEN {"baseline"} ELSE {})

\* ------------------------------------------------------------------ optimize
\* IsBaselineOptimized without the condition on the baseline objective
IsBaselineOptimizedAnyObjective(tp) ==
    tp.baseline_policy /\ ~HasOptimizerModule(tp)

\* optimize: is_baseline_optimized
IsBaselineOptimized(tp) ==
    tp.baseline_policy /\ ~HasOptimizerModule(tp) /\ ~tp.baseline_objective

\* TotalLossTerms adding the baseline loss whenever there is no optimizer
\* module
TotalLossTermsAnyObjective(tp) ==
    {"objective", "regularization"} \cup
    (IF ~HasOptimizerModule(tp) THEN {"baseline"} ELSE {})

\* total_loss: the terms of the loss the main optimizer minimises
TotalLossTerms(tp) ==
    {"objective", "regularization"} \cup
    (IF ~HasOptimizerModule(tp) /\ tp.baseline_objective
     THEN {"baseline"} ELSE {})

\* total_loss: the assertion of the branch that adds no baseline loss
TotalLossAssertionFails(tp, weight) ==
    /\ ~(~HasOptimizerModule(tp) /\ tp.baseline_objective)
    /\ weight # "none"

\* baseline_loss: the objective whose loss_per_instance is taken
BaselineLossObjective(tp) ==
    IF tp.baseline_objective THEN "baseline_objective" ELSE "objective"

\* BaselineArgumentsObjective always asking the main objective
BaselineArgumentsMainObjective(tp) == "objective"

\* optimize_baseline: the objective whose optimizer_arguments are taken
BaselineArgumentsObjective(tp) ==
    IF tp.baseline_objective THEN "baseline_objective" ELSE "objective"

\* HorizonAssertionFails for a graph without the assertion
HorizonAssertionNever(c, tp) == FALSE

\* optimize, "Retrieve states, internals and actions": the assert_equal on
\* the two on-policy past horizons
HorizonAssertionFails(c, tp) ==
    /\ tp.baseline_policy
    /\ ~HasOptimizerModule(tp)
    /\ c.policy_past # c.baseline_past

\* RewardDependencies of a graph whose reward estimation waits for the batch
\* indices only
RewardDependenciesIndicesOnly(tp) == {}

\* optimize, "Baseline optimization": the control dependencies of the reward
\* estimation block
RewardDependencies(tp) ==
    IF HasOptimizerModule(tp) THEN {"baseline_minimize_end"} ELSE {}

\* The operations of one optimize pass.  The two minimize calls are split
\* into begin and end, an optimizer step taking time.
MainNodes ==
    {"reward", "assert_horizon", "retrieve_states", "minimize_begin",
     "minimize_end"}

BaselineNodes ==
    {"baseline_retrieve", "baseline_minimize_begin", "baseline_minimize_end"}

OptimizeNodes(tp) ==
    MainNodes \cup (IF HasOptimizerModule(tp) THEN BaselineNodes ELSE {})

\* What has to be finished before an operation of the graph may run: its
\* control dependencies and the operations producing its inputs
Dependencies(tp, node) ==
    CASE node = "baseline_retrieve" -> {}
      [] node = "baseline_minimize_begin" -> {"baseline_retrieve"}
      [] node = "baseline_minimize_end" -> {"baseline_minimize_begin"}
      [] node = "reward" -> RewardDependencies(tp)
      [] node = "assert_horizon" -> {}
      [] node = "retrieve_states" -> {"assert_horizon"}
      [] node = "minimize_begin" -> {"reward", "retrieve_states"}
      [] node = "minimize_end" -> {"minimize_begin"}

\* The model before __init__ ran
NotConstructed ==
    [ pc |-> "new", done |-> {}, error |-> "none", baseline |-> "unset",
      version |-> [n \in {"policy", "baseline"} |-> 0],
      start_version |-> 0, reward_version |-> -1, reward_stopped |-> FALSE,
      loss |-> {}, loss_weight |-> "none", baseline_loss_weight |-> "none",
      baseline_loss |-> [objective |-> "none", arguments |-> "none",
                         policy |-> "none"],
      is_trainable |-> FALSE, estimate_horizon |-> "false",
      estimate_advantage |-> FALSE,
      estimator |-> [ k \in ValidRewardKeys |-> "none" ],
      schedule |-> [ periodic |-> FALSE, frequency |-> 0, start |-> 0,
                     max_frequency |-> 0 ] ]

\* The model __init__ leaves for a valid topology
Constructed(tp) ==
    [ NotConstructed EXCEPT
        !.pc = "ready",
        !.baseline = BaselineNetwork(tp),
        !.baseline_loss_weight = BaselineLossWeight(tp),
        !.is_trainable = IsTrainable(tp),
        !.estimate_horizon = EstimateHorizonDefault(tp),
        !.estimate_advantage = EstimateAdvantageDefault(tp),
        !.estimator = EstimatorArguments(MappingFor(tp), tp) ]

\* The topology of the scheduling runs: no baseline objective, and a
\* separate baseline policy comes with its own optimizer
DefaultTopology(c) ==
    [ baseline_policy |-> c.separate_baseline_policy,
      baseline_objective |-> FALSE,
      baseline_optimizer |-> IF c.separate_baseline_policy THEN "module" ELSE "none",
      estimate_advantage |-> "unset" ]

\* ------------------------------------------------------------------- state
NoCall ==
    [ op |-> "init", fired |-> FALSE, rejected |-> FALSE, failed |-> FALSE,
      par |-> 0,
      t |-> 0, e |-> 0, lu |-> -1,
      flags |-> << >>, stored |-> FALSE, reset_called |-> FALSE,
      values |-> << >>, evicted |-> << >>, flushed |-> << >>,
      staged_before |-> << >>, committed_before |-> 0,
      requested |-> 0, past |-> 0, future |-> 0, held |-> 0, valid |-> 0 ]

\* tf_initialize: the counters, buffers and memory of a fresh model
InitModel(c) ==
    /\ cfg = c
    /\ timestep = 0
    /\ episode = 0
    /\ update = 0
    /\ last_update = -1
    /\ buffer_index = [p \in 1..c.parallel |-> 0]
    /\ staging = << >>
    /\ committed = << >>
    /\ nrec = 0
    /\ open_ep = 0
    /\ firings = << >>
    /\ manual = 0
    /\ last = NoCall

InitWith(c) ==
    /\ InitModel(c)
    /\ mapping = MappingFor(DefaultTopology(c))
    /\ topology = DefaultTopology(c)
    /\ opt = Constructed(DefaultTopology(c))

Init == \E c \in Configs : InitWith(c)

\* What a call of core_experience leaves in the call record
ExperienceRecord(op, flags, x) ==
    [ NoCall EXCEPT !.op = op, !.flags = flags, !.stored = x.stored,
        !.reset_called = x.reset_called, !.values = x.values,
        !.evicted = x.evicted, !.flushed = x.flushed,
        !.staged_before = staging, !.committed_before = Len(committed),
        !.t = timestep, !.e = episode, !.lu = last_update ]

\* ----------------------------------------------------------------- actions
\* act: one more timestep is acted and buffered until observe
ActUpTo(limit) ==
    /\ nrec + BufferSum(buffer_index) < limit
    /\ \E p \in 1..cfg.parallel :
          /\ buffer_index[p] < MaxBuffer
          /\ buffer_index' = [buffer_index EXCEPT ![p] = buffer_index[p] + 1]
    /\ timestep' = timestep + 1
    /\ last' = [NoCall EXCEPT !.op = "act", !.t = timestep + 1, !.e = episode,
                              !.lu = last_update]
    /\ UNCHANGED <<cfg, mapping, topology, opt, episode, update, last_update, staging, committed, nrec,
                   open_ep, firings, manual>>

Act == ActUpTo(MaxT)

\* Observe with the update's retrieval reading the memory as it was before
\* the call's commit
ObserveRetrieveFirst(term) ==
    \E p \in 1..cfg.parallel :
    /\ buffer_index[p] > 0
    /\ LET n == buffer_index[p]
           flags == [i \in 1..n |-> IF i = n THEN term ELSE 0]
           batch == MakeBatch(nrec + 1, flags, open_ep, p)
           e == IF term > 0 THEN episode + 1 ELSE episode
           x == CoreExperience(cfg, staging, committed, batch)
           fires == ObserveFires(cfg, timestep, e, last_update)
           u == CoreUpdate(cfg, committed)
       IN /\ episode' = e
          /\ buffer_index' = [buffer_index EXCEPT ![p] = 0]
          /\ staging' = x.staging
          /\ committed' = x.committed
          /\ nrec' = nrec + Len(batch)
          /\ open_ep' = IF term > 0 THEN open_ep + 1 ELSE open_ep
          /\ last_update' = IF fires THEN PerformUpdateAssign(cfg, timestep, e)
                                     ELSE last_update
          /\ update' = IF fires THEN update + 1 ELSE update
          /\ firings' = IF fires
                      THEN Append(firings, IF cfg.unit = "timesteps" THEN timestep ELSE e)
                      ELSE firings
          /\ last' = [ ExperienceRecord("observe", flags, x) EXCEPT
                         !.e = e, !.fired = fires, !.par = p,
                         !.requested = IF fires THEN u.requested ELSE 0,
                         !.past = IF fires THEN u.past ELSE 0,
                         !.future = IF fires THEN u.future ELSE 0,
                         !.held = IF fires THEN u.held ELSE 0,
                         !.valid = IF fires THEN u.valid ELSE 0 ]
    /\ UNCHANGED <<cfg, mapping, topology, opt, timestep, manual>>

\* observe: the buffered timesteps of one parallel interaction, the last one
\* with terminal flag term, go through core_observe: core_experience, then
\* the scheduling check and, when it fires, the assignment of last_update
\* and core_update
Observe(term) ==
    \E p \in 1..cfg.parallel :
    /\ buffer_index[p] > 0
    /\ LET n == buffer_index[p]
           flags == [i \in 1..n |-> IF i = n THEN term ELSE 0]
           batch == MakeBatch(nrec + 1, flags, open_ep, p)
           e == IF term > 0 THEN episode + 1 ELSE episode
           x == CoreExperience(cfg, staging, committed, batch)
           fires == ObserveFires(cfg, timestep, e, last_update)
           u == CoreUpdate(cfg, x.committed)
       IN /\ episode' = e
          /\ buffer_index' = [buffer_index EXCEPT ![p] = 0]
          /\ staging' = x.staging
          /\ committed' = x.committed
          /\ nrec' = nrec + Len(batch)
          /\ open_ep' = IF term > 0 THEN open_ep + 1 ELSE open_ep
          /\ last_update' = IF fires THEN PerformUpdateAssign(cfg, timestep, e)
                                     ELSE last_update
          /\ update' = IF fires THEN update + 1 ELSE update
          /\ firings' = IF fires
                      THEN Append(firings, IF cfg.unit = "timesteps" THEN timestep ELSE e)
                      ELSE firings
          /\ last' = [ ExperienceRecord("observe", flags, x) EXCEPT
                         !.e = e, !.fired = fires, !.par = p,
                         !.requested = IF fires THEN u.requested ELSE 0,
                         !.past = IF fires THEN u.past ELSE 0,
                         !.future = IF fires THEN u.future ELSE 0,
                         !.held = IF fires THEN u.held ELSE 0,
                         !.valid = IF fires THEN u.valid ELSE 0 ]
    /\ UNCHANGED <<cfg, mapping, topology, opt, timestep, manual>>

\* The terminal inputs experience() may be called with
ExperienceInputs ==
    UNION { [1..n -> {0, 1}] : n \in 1..MaxBuffer }

\* ExperienceAccepted without the assertion "terminal is not the last input
\* timestep"
ExperienceAcceptedNoPosition(flags) ==
    /\ BufferSum(buffer_index) = 0
    /\ Cardinality({i \in 1..Len(flags) : flags[i] # 0}) <= 1

\* ExperienceAccepted looking at the first interaction's buffer index only
ExperienceAcceptedFirstIndex(flags) ==
    /\ buffer_index[1] = 0
    /\ Cardinality({i \in 1..Len(flags) : flags[i] # 0}) <= 1
    /\ (\E i \in 1..Len(flags) : flags[i] > 0) = (flags[Len(flags)] > 0)

\* api_experience: the assertions on the terminal input and the buffer index
ExperienceAccepted(flags) ==
    /\ BufferSum(buffer_index) = 0
    /\ Cardinality({i \in 1..Len(flags) : flags[i] # 0}) <= 1
    /\ (\E i \in 1..Len(flags) : flags[i] > 0) = (flags[Len(flags)] > 0)

\* Experience followed by the frequency check of core_observe
ExperienceScheduling(flags) ==
    /\ nrec + BufferSum(buffer_index) + Len(flags) <= MaxT
    /\ ExperienceAccepted(flags)
    /\ LET batch == MakeBatch(nrec + 1, flags, open_ep, 0)
           x == CoreExperience(cfg, staging, committed, batch)
           unit == ShiftedUnit(cfg, timestep, episode)
           fires == cfg.periodic /\ unit >= 0 /\ unit % cfg.frequency = 0
       IN /\ staging' = x.staging
          /\ committed' = x.committed
          /\ nrec' = nrec + Len(batch)
          /\ open_ep' = IF flags[Len(flags)] > 0 THEN open_ep + 1 ELSE open_ep
          /\ last' = ExperienceRecord("experience", flags, x)
          /\ update' = IF fires THEN update + 1 ELSE update
          /\ last_update' = IF fires THEN unit ELSE last_update
    /\ UNCHANGED <<cfg, mapping, topology, opt, timestep, episode, buffer_index,
                   firings, manual>>

\* experience: a checked batch goes through core_experience only
Experience(flags) ==
    /\ nrec + BufferSum(buffer_index) + Len(flags) <= MaxT
    /\ ExperienceAccepted(flags)
    /\ LET batch == MakeBatch(nrec + 1, flags, open_ep, 0)
           x == CoreExperience(cfg, staging, committed, batch)
       IN /\ staging' = x.staging
          /\ committed' = x.committed
          /\ nrec' = nrec + Len(batch)
          /\ open_ep' = IF flags[Len(flags)] > 0 THEN open_ep + 1 ELSE open_ep
          /\ last' = ExperienceRecord("experience", flags, x)
    /\ UNCHANGED <<cfg, mapping, topology, opt, timestep, episode, update, last_update, buffer_index,
                   firings, manual>>

\* ExperienceRejected with core_experience not waiting for the assertions
ExperienceRejectedAfterIngest(flags) ==
    /\ ~ExperienceAccepted(flags)
    /\ nrec + BufferSum(buffer_index) + Len(flags) <= MaxT
    /\ LET batch == MakeBatch(nrec + 1, flags, open_ep, 0)
           x == CoreExperience(cfg, staging, committed, batch)
       IN /\ staging' = x.staging
          /\ committed' = x.committed
          /\ nrec' = nrec + Len(batch)
    /\ last' = [NoCall EXCEPT !.op = "experience", !.rejected = TRUE,
                   !.flags = flags, !.t = timestep, !.e = episode,
                   !.lu = last_update]
    /\ UNCHANGED <<cfg, mapping, topology, opt, timestep, episode, update, last_update, buffer_index,
                   open_ep, firings, manual>>

\* experience: a batch that fails an assertion raises before core_experience
\* runs; nothing is ingested
ExperienceRejected(flags) ==
    /\ ~ExperienceAccepted(flags)
    /\ last' = [NoCall EXCEPT !.op = "experience", !.rejected = TRUE,
                   !.flags = flags, !.t = timestep, !.e = episode,
                   !.lu = last_update]
    /\ UNCHANGED <<cfg, mapping, topology, opt, timestep, episode, update, last_update, buffer_index,
                   staging, committed, nrec, open_ep, firings, manual>>

\* Update running its optimization pass only when the scheduler would fire
UpdateScheduledOnly ==
    /\ manual < MaxManual
    /\ LET u == CoreUpdate(cfg, committed)
       IN last' = [NoCall EXCEPT !.op = "update", !.t = timestep, !.e = episode,
                     !.lu = last_update, !.requested = u.requested,
                     !.past = u.past, !.future = u.future, !.held = u.held,
                     !.valid = u.valid]
    /\ update' = IF ObserveFires(cfg, timestep, episode, last_update)
                 THEN update + 1 ELSE update
    /\ manual' = manual + 1
    /\ UNCHANGED <<cfg, mapping, topology, opt, timestep, episode, last_update, buffer_index, staging,
                   committed, nrec, open_ep, firings>>

\* Update taking the retrieved records out of the memory
UpdateConsuming ==
    /\ manual < MaxManual
    /\ LET u == CoreUpdate(cfg, committed)
       IN last' = [NoCall EXCEPT !.op = "update", !.t = timestep, !.e = episode,
                     !.lu = last_update, !.requested = u.requested,
                     !.past = u.past, !.future = u.future, !.held = u.held,
                     !.valid = u.valid]
    /\ update' = update + 1
    /\ manual' = manual + 1
    /\ committed' = Prefix(committed, Len(committed) - Min(cfg.batch_size, Len(committed)))
    /\ UNCHANGED <<cfg, mapping, topology, opt, timestep, episode, last_update, buffer_index, staging,
                   nrec, open_ep, firings>>

\* Update recording the pass in last_update as a scheduled update does
UpdateAssigning ==
    /\ manual < MaxManual
    /\ LET u == CoreUpdate(cfg, committed)
       IN last' = [NoCall EXCEPT !.op = "update", !.t = timestep, !.e = episode,
                     !.lu = last_update, !.requested = u.requested,
                     !.past = u.past, !.future = u.future, !.held = u.held,
                     !.valid = u.valid]
    /\ update' = update + 1
    /\ manual' = manual + 1
    /\ last_update' = Max(last_update, ShiftedUnit(cfg, timestep, episode))
    /\ UNCHANGED <<cfg, mapping, topology, opt, timestep, episode, buffer_index, staging,
                   committed, nrec, open_ep, firings>>

\* update: core_update whatever the scheduler state is
Update ==
    /\ manual < MaxManual
    /\ LET u == CoreUpdate(cfg, committed)
       IN last' = [NoCall EXCEPT !.op = "update", !.t = timestep, !.e = episode,
                     !.lu = last_update, !.requested = u.requested,
                     !.past = u.past, !.future = u.future, !.held = u.held,
                     !.valid = u.valid]
    /\ update' = update + 1
    /\ manual' = manual + 1
    /\ UNCHANGED <<cfg, mapping, topology, opt, timestep, episode, last_update, buffer_index, staging,
                   committed, nrec, open_ep, firings>>

Next ==
    \/ Act
    \/ \E term \in {0, 1} : Observe(term)
    \/ \E flags \in ExperienceInputs : Experience(flags)
    \/ Update

Spec == Init /\ [][Next]_vars

\* ------------------------------------------------------------ scenario run
\* update = {unit: timesteps, batch_size: 8, frequency: 8}, start unset (0),
\* reward_estimation = {horizon: 3}: future horizon 3, staging capacity 4,
\* no baseline policy
ScenarioConfigs ==
    { [ unit |-> "timesteps", parallel |-> 1, periodic |-> TRUE, batch_size |-> 8,
        frequency |-> 8, start |-> 0, separate_baseline_policy |-> FALSE,
        policy_past |-> p, baseline_past |-> 0, future_horizon |-> 3,
        window |-> 4 ] : p \in 0..ScenPast }

InitScenario == \E c \in ScenarioConfigs : InitWith(c)

\* Non-terminal timesteps, acted and observed one at a time
ScenarioAct == BufferSum(buffer_index) = 0 /\ ActUpTo(ScenSteps)

ScenarioObserve == Observe(0)

NextScenario == ScenarioAct \/ ScenarioObserve

SpecScenario == InitScenario /\ [][NextScenario]_vars

\* ------------------------------------------------------- optimization run
\* __init__ for the given topology: the assertions, then the resolved flags
Construct ==
    /\ opt.pc = "new"
    /\ \E b \in BaselineAttribute(topology) :
          opt' = IF ConstructError(mapping, cfg, topology) = "none"
                 THEN [Constructed(topology) EXCEPT
                         !.baseline = b,
                         !.estimator = EstimatorArguments(mapping, topology),
                         !.schedule = ResolveUpdate(mapping, cfg)]
                 ELSE [opt EXCEPT !.pc = "config_error",
                                  !.error = ConstructError(mapping, cfg, topology)]
    /\ UNCHANGED <<cfg, mapping, timestep, episode, update, last_update, buffer_index,
                   staging, committed, nrec, open_ep, firings, manual, last,
                   topology>>

\* core_update hands the retrieved indices to optimize.  optimize reads
\* self.baseline whatever the topology is (optimizer_arguments), and
\* optimize_baseline reads nothing else: with the attribute unset the call
\* raises before any operation runs
OptimizeBegin ==
    /\ opt.pc = "ready"
    /\ update < MaxPasses
    /\ opt' = IF opt.baseline = "unset"
              THEN [opt EXCEPT !.pc = "failed", !.error = "attribute",
                               !.done = {}]
              ELSE [opt EXCEPT !.pc = "running", !.done = {},
                      !.start_version = opt.version[BaselineNetwork(topology)],
                      !.reward_version = -1, !.reward_stopped = FALSE,
                      !.loss = {}, !.loss_weight = "none",
                      !.baseline_loss = NotConstructed.baseline_loss]
    /\ UNCHANGED <<cfg, mapping, timestep, episode, update, last_update, buffer_index,
                   staging, committed, nrec, open_ep, firings, manual, last,
                   topology>>

\* One operation of the optimize graph runs, its dependencies being done
OptimizeStep(node) ==
    /\ opt.pc = "running"
    /\ node \in OptimizeNodes(topology) \ opt.done
    /\ Dependencies(topology, node) \subseteq opt.done
    /\ LET ran == [opt EXCEPT !.done = opt.done \cup {node}]
           bl == BaselineNetwork(topology)
       IN opt' =
            CASE node = "assert_horizon" ->
                    IF HorizonAssertionFails(cfg, topology)
                    THEN [opt EXCEPT !.pc = "failed", !.error = "horizon"]
                    ELSE ran
              [] node = "baseline_minimize_begin" ->
                    [ran EXCEPT !.baseline_loss =
                        [objective |-> BaselineLossObjective(topology),
                         arguments |-> BaselineArgumentsObjective(topology),
                         policy |-> opt.baseline]]
              [] node = "baseline_minimize_end" ->
                    [ran EXCEPT !.version[opt.baseline] =
                                    opt.version[opt.baseline] + 1]
              [] node = "reward" ->
                    [ran EXCEPT !.reward_version = opt.version[bl],
                                !.reward_stopped = ~IsBaselineOptimized(topology)]
              [] node = "minimize_begin" ->
                    IF TotalLossAssertionFails(topology, opt.baseline_loss_weight)
                    THEN [opt EXCEPT !.pc = "failed", !.error = "loss_weight"]
                    ELSE [ran EXCEPT !.loss = TotalLossTerms(topology),
                                     !.loss_weight = opt.baseline_loss_weight]
              [] node = "minimize_end" ->
                    [ran EXCEPT !.version =
                        [n \in {"policy", "baseline"} |->
                            IF n \in MainVariables(topology)
                            THEN opt.version[n] + 1 ELSE opt.version[n]]]
              [] OTHER -> ran
    /\ UNCHANGED <<cfg, mapping, timestep, episode, update, last_update, buffer_index,
                   staging, committed, nrec, open_ep, firings, manual, last,
                   topology>>

\* OptimizeEnd incrementing the counter while the optimizer step is running
OptimizeEndBeforeStep ==
    /\ opt.pc = "running"
    /\ opt.done = OptimizeNodes(topology) \ {"minimize_end"}
    /\ opt' = [opt EXCEPT !.pc = "ready"]
    /\ update' = update + 1
    /\ UNCHANGED <<cfg, mapping, timestep, episode, last_update, buffer_index,
                   staging, committed, nrec, open_ep, firings, manual, last,
                   topology>>

\* core_update, "Increment update", once optimize returned
OptimizeEnd ==
    /\ opt.pc = "running"
    /\ opt.done = OptimizeNodes(topology)
    /\ opt' = [opt EXCEPT !.pc = "ready"]
    /\ update' = update + 1
    /\ UNCHANGED <<cfg, mapping, timestep, episode, last_update, buffer_index,
                   staging, committed, nrec, open_ep, firings, manual, last,
                   topology>>

\* The constructions tried: every topology, and on-policy past horizons of
\* policy and baseline that agree or differ
OptimizeConfigs ==
    {c \in Configs : /\ c.unit = "timesteps" /\ ~c.periodic
                     /\ c.batch_size = 1 /\ c.future_horizon = 0
                     /\ c.window = 1}

InitOptimize ==
    \E c \in OptimizeConfigs, tp \in Topologies :
        /\ c.separate_baseline_policy = tp.baseline_policy
        /\ InitModel(c)
        /\ mapping = MappingFor(tp)
        /\ topology = tp
        /\ opt = NotConstructed

NextOptimize ==
    \/ Construct
    \/ OptimizeBegin
    \/ \E node \in MainNodes \cup BaselineNodes : OptimizeStep(node)
    \/ OptimizeEnd

SpecOptimize == InitOptimize /\ [][NextOptimize]_vars

\* ---------------------------------------------------------- stepwise run
\* Periodic updates, the scheduler checked at every value of the unit
\* counter: each timestep is observed as soon as it is acted, and in
\* episodes mode every observed timestep ends its episode
StepwiseConfigs == {c \in Configs : c.periodic}

InitStepwise == \E c \in StepwiseConfigs : InitWith(c)

StepwiseAct == BufferSum(buffer_index) = 0 /\ ActUpTo(ScenSteps)

StepwiseObserve == Observe(IF cfg.unit = "episodes" THEN 1 ELSE 0)

NextStepwise == StepwiseAct \/ StepwiseObserve

SpecStepwise == InitStepwise /\ [][NextStepwise]_vars

\* ------------------------------------------------------------ manual run
\* The stepwise run with update() called at any point in between
NextManual == StepwiseAct \/ StepwiseObserve \/ Update

SpecManual == InitStepwise /\ [][NextManual]_vars

\* ----------------------------------------------------------- failing run
\* A separate baseline policy trained through the main loss (no baseline
\* objective, no baseline optimizer): optimize asserts that policy and
\* baseline have the same on-policy past horizon, and a scheduled update
\* whose pass hits the failing assertion raises out of observe
FailingTopology ==
    [ baseline_policy |-> TRUE, baseline_objective |-> FALSE,
      baseline_optimizer |-> "none", estimate_advantage |-> "unset" ]

FailingConfigs ==
    {c \in Configs : /\ c.unit = "timesteps" /\ c.periodic
                     /\ c.separate_baseline_policy
                     /\ c.batch_size = 1 /\ c.future_horizon = 0
                     /\ c.window = 1}

InitFailing ==
    \E c \in FailingConfigs :
        /\ InitModel(c)
        /\ mapping = MappingFor(FailingTopology)
        /\ topology = FailingTopology
        /\ opt = Constructed(FailingTopology)

\* perform_update of a pass that fails with the assignment made after
\* core_update: the assignment is never reached
FailedPassLastUpdateAfter(c, t, e, lu) == lu

\* perform_update: last_update after a pass that failed.  The assignment
\* is a control dependency of core_update, it has run when the pass raises
FailedPassLastUpdate(c, t, e, lu) == PerformUpdateAssign(c, t, e)

\* observe with a scheduled pass that may fail: core_experience, the
\* scheduling check, the assignment of last_update, then core_update, whose
\* optimize raises when the horizon assertion fails.  The update counter
\* is incremented after optimize only.  api_observe resets the buffer index
\* after core_observe; whether it still does when core_observe raised is
\* left open (reset), and a caller that retries hands in the same buffer
ObserveChecked(term) ==
    \E p \in 1..cfg.parallel, reset \in BOOLEAN :
    /\ buffer_index[p] > 0
    /\ nrec + buffer_index[p] <= MaxFailingSteps
    /\ LET n == buffer_index[p]
           flags == [i \in 1..n |-> IF i = n THEN term ELSE 0]
           batch == MakeBatch(nrec + 1, flags, open_ep, p)
           e == IF term > 0 THEN episode + 1 ELSE episode
           x == CoreExperience(cfg, staging, committed, batch)
           fires == ObserveFires(cfg, timestep, e, last_update)
           failing == fires /\ HorizonAssertionFails(cfg, topology)
           u == CoreUpdate(cfg, x.committed)
       IN /\ (reset \/ failing)
          /\ episode' = e
          /\ buffer_index' = IF reset THEN [buffer_index EXCEPT ![p] = 0]
                                       ELSE buffer_index
          /\ staging' = x.staging
          /\ committed' = x.committed
          /\ nrec' = nrec + Len(batch)
          /\ open_ep' = IF term > 0 THEN open_ep + 1 ELSE open_ep
          /\ last_update' =
                IF ~fires THEN last_update
                ELSE IF failing
                     THEN FailedPassLastUpdate(cfg, timestep, e, last_update)
                     ELSE PerformUpdateAssign(cfg, timestep, e)
          /\ update' = IF fires /\ ~failing THEN update + 1 ELSE update
          /\ firings' = IF fires
                      THEN Append(firings, IF cfg.unit = "timesteps" THEN timestep ELSE e)
                      ELSE firings
          /\ last' = [ ExperienceRecord("observe", flags, x) EXCEPT
                         !.e = e, !.fired = fires, !.failed = failing, !.par = p,
                         !.requested = IF fires THEN u.requested ELSE 0,
                         !.past = IF fires THEN u.past ELSE 0,
                         !.future = IF fires THEN u.future ELSE 0,
                         !.held = IF fires THEN u.held ELSE 0,
                         !.valid = IF fires THEN u.valid ELSE 0 ]
    /\ UNCHANGED <<cfg, mapping, topology, opt, timestep, manual>>

FailingAct == ActUpTo(MaxFailingSteps)

NextFailing == FailingAct \/ \E term \in {0, 1} : ObserveChecked(term)

SpecFailing == InitFailing /\ [][NextFailing]_vars

\* ---------------------------------------------------------- capacity run
\* Timestep-based constructions with past and future horizons up to
\* MaxCapacityHorizon, no scheduled updates; update() asks for a batch
CapacityConfigs ==
    { c \in [ unit : {"timesteps"},
              parallel : {1},
              periodic : {FALSE},
              batch_size : {1, MaxBatchSize},
              frequency : {1},
              start : {0},
              separate_baseline_policy : BOOLEAN,
              policy_past : 0..MaxCapacityHorizon,
              baseline_past : 0..MaxCapacityHorizon,
              future_horizon : 0..MaxCapacityHorizon,
              window : 1..(MaxCapacityHorizon + 1) ] :
        /\ (~c.separate_baseline_policy => c.baseline_past = 0)
        /\ c.window = c.future_horizon + 1 }

InitCapacity == \E c \in CapacityConfigs : InitWith(c)

NextCapacity == Update

SpecCapacity == InitCapacity /\ [][NextCapacity]_vars

\* ------------------------------------------------------ construction run
\* Every pair of mappings, for a topology that constructs and one that does
\* not; the estimate_advantage key, where given, is True
ConfigTopologies ==
    { tp \in Topologies :
        /\ tp.baseline_policy /\ ~tp.baseline_objective
        /\ tp.baseline_optimizer \in {"module", "weight"}
        /\ tp.estimate_advantage \in {"unset", "true"} }

InitConfig ==
    \E c \in OptimizeConfigs, tp \in ConfigTopologies, m \in Mappings :
        /\ c.separate_baseline_policy /\ c.policy_past = 0 /\ c.baseline_past = 0
        /\ (tp.estimate_advantage = "unset") <=>
              ("estimate_advantage" \notin m.reward_estimation)
        /\ InitModel(c)
        /\ mapping = m
        /\ topology = tp
        /\ opt = NotConstructed

NextConfig == Construct

SpecConfig == InitConfig /\ [][NextConfig]_vars

\* ---------------------------------------------------------- estimator run
\* Construction over every topology and every set of reward_estimation
\* keys, with a valid update mapping
EstimatorMappings ==
    { m \in Mappings :
        /\ m.update = {"unit", "batch_size", "frequency", "start"}
        /\ m.unit = "timesteps"
        /\ m.reward_estimation \subseteq ValidRewardKeys }

InitEstimator ==
    \E c \in OptimizeConfigs, tp \in Topologies, m \in EstimatorMappings :
        /\ c.separate_baseline_policy = tp.baseline_policy
        /\ c.policy_past = 0 /\ c.baseline_past = 0
        /\ (tp.estimate_advantage = "unset") <=>
              ("estimate_advantage" \notin m.reward_estimation)
        /\ InitModel(c)
        /\ mapping = m
        /\ topology = tp
        /\ opt = NotConstructed

NextEstimator == Construct

SpecEstimator == InitEstimator /\ [][NextEstimator]_vars

\* ------------------------------------------------------ update-mode run
\* Construction over update mappings with known keys only: any subset of
\* the four keys, a unit that may be invalid, and a frequency that may be
\* above max(2, batch_size)
UpdateMappings ==
    { m \in Mappings :
        /\ m.update \subseteq ValidUpdateKeys
        /\ m.reward_estimation = {"horizon"} }

UpdateArguments ==
    { [c EXCEPT !.frequency = f] :
        c \in {d \in Configs : /\ ~d.separate_baseline_policy
                                /\ d.policy_past = 0 /\ d.future_horizon = 0
                                /\ d.window = 1 /\ d.frequency = 1},
        f \in 1..(Max(2, MaxBatchSize) + 1) }

InitUpdate ==
    \E c \in UpdateArguments, m \in UpdateMappings :
        /\ ~c.periodic => c.frequency = 1
        /\ c.unit = (IF m.unit = "episodes" THEN "episodes" ELSE "timesteps")
        /\ InitModel(c)
        /\ mapping = m
        /\ topology = DefaultTopology(c)
        /\ opt = NotConstructed

NextUpdate == Construct

SpecUpdate == InitUpdate /\ [][NextUpdate]_vars

\* ------------------------------------------------------- entry-point run
\* Several parallel interactions and terminal inputs over 0 (none), 1
\* (terminal) and 2 (aborted); no updates are scheduled
ApiConfigs ==
    { [c EXCEPT !.parallel = MaxParallel] :
        c \in {d \in Configs : /\ ~d.periodic /\ d.unit = "timesteps"
                                /\ ~d.separate_baseline_policy
                                /\ d.batch_size = 1 /\ d.policy_past = 0
                                /\ d.future_horizon = 0} }

InitApi == \E c \in ApiConfigs : InitWith(c)

ApiExperienceInputs ==
    UNION { [1..n -> {0, 1, 2}] : n \in 1..MaxBuffer }

\* An interaction hands in its buffered timesteps at the end of its episode
ApiObserve == Observe(1)

NextApi ==
    \/ Act
    \/ ApiObserve
    \/ \E flags \in ApiExperienceInputs : Experience(flags)
    \/ \E flags \in ApiExperienceInputs : ExperienceRejected(flags)

SpecApi == InitApi /\ [][NextApi]_vars

\* ------------------------------------------------- parallel interactions
\* Several interactions act and observe in any interleaving; an observe
\* call may end mid-episode (buffer full) or with a terminal
NextParallel ==
    \/ Act
    \/ \E term \in {0, 1} : Observe(term)

SpecParallel == InitApi /\ [][NextParallel]_vars

\* ------------------------------------------------------------------ claims
\* The records of the call just made, as ingested
LastBatchIds == {nrec - Len(last.flags) + i : i \in 1..Len(last.flags)}

IsObserve == last.op = "observe"

IsCoreExperience == last.op \in {"observe", "experience"} /\ ~last.rejected

\* C1: in timesteps mode with a periodic frequency an observe call fires a
\* scheduled update iff (timestep - start') mod frequency = 0 and
\* (timestep - start') > last_update, with start' = max(start, frequency +
\* past_horizon + future_horizon + 1) and past_horizon the policy's past
\* horizon or, with a separate baseline, the larger of it and the baseline's
\* past horizon minus the future horizon.
C1_TimestepsFiring ==
    (IsObserve /\ cfg.unit = "timesteps" /\ cfg.periodic) =>
        LET past == IF cfg.separate_baseline_policy
                    THEN Max(cfg.policy_past, cfg.baseline_past - cfg.future_horizon)
                    ELSE cfg.policy_past
            start == Max(cfg.start, cfg.frequency + past + cfg.future_horizon + 1)
            shifted == last.t - start
        IN last.fired <=> (shifted % cfg.frequency = 0 /\ shifted > last.lu)

C1_Witness ==
    /\ IsObserve /\ cfg.unit = "timesteps" /\ cfg.periodic /\ last.fired
    /\ cfg.separate_baseline_policy
    /\ cfg.baseline_past - cfg.future_horizon > cfg.policy_past

\* C2: in episodes mode with a periodic frequency an observe call fires a
\* scheduled update iff (episode - start') mod frequency = 0 and
\* (episode - start') > last_update, with start' = max(start, frequency): no
\* horizon enters the clamp.
C2_EpisodesFiring ==
    (IsObserve /\ cfg.unit = "episodes" /\ cfg.periodic) =>
        LET shifted == last.e - Max(cfg.start, cfg.frequency)
        IN last.fired <=> (shifted % cfg.frequency = 0 /\ shifted > last.lu)

C2_Witness ==
    /\ IsObserve /\ cfg.unit = "episodes" /\ cfg.periodic /\ last.fired
    /\ cfg.start > cfg.frequency

\* C3: at a fixed value of the unit counter at most one scheduled update
\* fires: no two scheduled updates fired at the same counter value.
C3_OneFiringPerUnit ==
    \A i, j \in 1..Len(firings) : i < j => firings[i] < firings[j]

\* an observe call on a frequency boundary at which an update already fired
C3_Witness ==
    /\ IsObserve /\ cfg.periodic /\ ~last.fired
    /\ Len(firings) > 0
    /\ firings[Len(firings)] = (IF cfg.unit = "timesteps" THEN last.t ELSE last.e)
    /\ ShiftedUnit(cfg, last.t, last.e) % cfg.frequency = 0

\* C4: last_update starts at -1 and never decreases: a scheduled firing
\* assigns it a value strictly greater than the one it had, and no other
\* call (act, experience, update, an observe that does not fire) changes it.
C4_LastUpdateMonotonic ==
    /\ last_update >= -1
    /\ (last.op = "init" => last_update = -1)
    /\ (last.fired => last_update > last.lu)
    /\ (~last.fired => last_update = last.lu)
    /\ last.lu >= -1

C4_Witness == last.fired /\ last.lu >= 0

\* C5: with frequency 'never' no observe call runs an optimization pass,
\* changes last_update or increments the update counter; the call still
\* records its batch through core_experience.
C5_NeverNoUpdate ==
    ~cfg.periodic =>
        /\ firings = << >>
        /\ last_update = -1
        /\ update = manual
        /\ (IsObserve =>
              /\ ~last.fired
              /\ LastBatchIds \subseteq
                    {r.id : r \in {staging[i] : i \in 1..Len(staging)}
                                  \cup {committed[i] : i \in 1..Len(committed)}})

C5_Witness ==
    /\ ~cfg.periodic /\ IsObserve /\ cfg.unit = "timesteps" /\ nrec >= 3
    /\ Len(committed) > 0

\* C6: in timesteps mode, at the first scheduled update that ever fires the
\* memory holds at least batch_size records that have the past_horizon
\* predecessors and future_horizon successors core_update asks
\* retrieve_timesteps for.
C6_FirstUpdateFullBatch ==
    (IsObserve /\ cfg.unit = "timesteps" /\ last.fired /\ Len(firings) = 1) =>
        last.valid >= cfg.batch_size

\* C7 as stated: after 16 non-terminal timesteps observed one at a time
\* under the scenario configuration, exactly two scheduled updates fired.
C7_TwoUpdatesAfter16 ==
    (nrec = 16 /\ cfg.policy_past = 0) => Len(firings) = 2

\* C7 as amended: after 16 non-terminal timesteps observed one at a time
\* under the scenario configuration exactly one scheduled update has fired,
\* at timestep 8 + past_horizon + 3 + 1 (12 for a policy without past
\* horizon); the second fires 8 timesteps after the first.
C7_OneUpdateAfter16 ==
    /\ nrec = 16 =>
          /\ Len(firings) = 1
          /\ update = 1
          /\ firings[1] = 12 + cfg.policy_past
    /\ Len(firings) >= 2 => firings[2] = 20 + cfg.policy_past

C7_Witness == nrec = 16 /\ cfg.policy_past = 0 /\ last.fired = FALSE /\ Len(firings) = 1

\* C8: an episode of T records, ingested in any split into calls and ended
\* by a terminal record, is in memory after the call that carries the
\* terminal: each of its records exactly once and in order, for every
\* staging capacity. (With the episodes before it: the memory log is then
\* the records 1..nrec in order, and nothing is staged.)
C8_EpisodeRoundTrip ==
    (IsCoreExperience /\ last.flags[Len(last.flags)] > 0) =>
        /\ staging = << >>
        /\ Len(committed) = nrec
        /\ \A i \in 1..nrec : committed[i].id = i
        /\ committed[nrec].terminal > 0
        /\ \A i \in 1..nrec : committed[i].ep = Cardinality({j \in 1..(i - 1) : committed[j].terminal > 0})

\* an episode of three records over several calls, part of it evicted early
C8_Witness ==
    /\ IsCoreExperience /\ last.flags[Len(last.flags)] > 0
    /\ Len(last.staged_before) > 0
    /\ Len(last.evicted) > 0
    /\ Cardinality({i \in 1..Len(committed) : committed[i].ep = open_ep - 1}) >= 3
    /\ last.committed_before > 0

\* C9: when the last record of the batch is terminal, one commit stores the
\* entries evicted by enqueue followed by the entries returned by reset;
\* otherwise only the evicted entries are stored and reset is not called.
C9_CommitOrder ==
    IsCoreExperience =>
        LET new == SubSeq(committed, last.committed_before + 1, Len(committed))
        IN IF last.flags[Len(last.flags)] > 0
           THEN /\ last.reset_called
                /\ new = last.evicted \o last.flushed
                /\ last.stored
           ELSE /\ ~last.reset_called
                /\ last.flushed = << >>
                /\ new = last.evicted

C9_Witness ==
    /\ IsCoreExperience /\ last.flags[Len(last.flags)] > 0
    /\ Len(last.evicted) > 0 /\ Len(last.flushed) > 0

\* C10: core_experience calls memory.enqueue iff the number of values to
\* commit (evicted plus flushed) is greater than zero; a call that neither
\* evicts nor flushes leaves the memory unchanged.
C10_StoreIffValues ==
    IsCoreExperience =>
        /\ last.stored <=> (Len(last.evicted) + Len(last.flushed) > 0)
        /\ (Len(last.evicted) + Len(last.flushed) = 0 =>
                Len(committed) = last.committed_before)

C10_Witness ==
    /\ IsCoreExperience /\ ~last.stored
    /\ Len(staging) > Len(last.staged_before)

\* C11: after a core_experience call whose last record is terminal the
\* staging buffer is empty; in every reachable state the staged records
\* belong to the one open episode, and every ingested record of a closed
\* episode is in memory (it was committed no later than the call that
\* ingested its episode's terminal record).
C11_FlushAtTerminal ==
    /\ (IsCoreExperience /\ last.flags[Len(last.flags)] > 0) => staging = << >>
    /\ \A i \in 1..Len(staging) : staging[i].ep = open_ep /\ staging[i].terminal = 0
    /\ \A i \in 1..Len(committed) : committed[i].ep <= open_ep
    /\ {r.id : r \in {staging[i] : i \in 1..Len(staging)}} \cup
       {r.id : r \in {committed[i] : i \in 1..Len(committed)}} = 1..nrec
    /\ Len(staging) + Len(committed) = nrec

\* records staged for the open episode while a closed episode sits in memory
C11_Witness ==
    /\ Len(staging) > 0
    /\ open_ep > 0
    /\ \E i \in 1..Len(committed) : committed[i].ep < open_ep
    /\ \E i \in 1..Len(committed) : committed[i].ep = open_ep

\* The terminal input of the last experience() call has more than one
\* non-zero flag
LastManyTerminals == Cardinality({i \in 1..Len(last.flags) : last.flags[i] # 0}) > 1

\* The terminal input of the last experience() call has a positive flag
\* before its last position
LastTerminalInside == \E i \in 1..(Len(last.flags) - 1) : last.flags[i] > 0

\* C12: experience() rejects every batch with more than one non-zero
\* terminal flag and every batch with a positive terminal flag anywhere but
\* in the last position; called between episodes it accepts a batch with no
\* terminal flag or with exactly one positive flag in the last position.
C12_TerminalChecks ==
    last.op = "experience" =>
        /\ (LastManyTerminals \/ LastTerminalInside) => last.rejected
        /\ (/\ \A p \in 1..cfg.parallel : buffer_index[p] = 0
            /\ ~LastManyTerminals
            /\ ~LastTerminalInside
            /\ \A i \in 1..Len(last.flags) : last.flags[i] >= 0) => ~last.rejected

C12_Witness ==
    /\ last.op = "experience"
    /\ last.rejected
    /\ LastTerminalInside
    /\ ~LastManyTerminals
    /\ \A p \in 1..cfg.parallel : buffer_index[p] = 0

C12_WitnessAccepted ==
    /\ last.op = "experience"
    /\ ~last.rejected
    /\ Len(last.flags) > 1
    /\ last.flags[Len(last.flags)] > 0

\* C13: experience() is rejected whenever the buffer index of any parallel
\* interaction is non-zero, and a call that is accepted found every buffer
\* index at zero.
C13_BetweenEpisodesOnly ==
    last.op = "experience" =>
        /\ (\E p \in 1..cfg.parallel : buffer_index[p] # 0) => last.rejected
        /\ ~last.rejected => \A p \in 1..cfg.parallel : buffer_index[p] = 0

C13_Witness ==
    /\ last.op = "experience"
    /\ last.rejected
    /\ buffer_index[1] = 0
    /\ \E p \in 1..cfg.parallel : buffer_index[p] # 0
    /\ ~LastManyTerminals
    /\ ~LastTerminalInside

\* C14: every update() call runs exactly one optimization pass (the update
\* counter advances by one) and leaves the scheduler's bookkeeping alone,
\* whatever the scheduler state is: off a frequency boundary, before the
\* clamped start, right after a scheduled update, or with frequency 'never'.
C14_ManualUpdateAlwaysRuns ==
    [][last'.op = "update" =>
          /\ update' = update + 1
          /\ UNCHANGED <<last_update, timestep, episode, staging, committed>>]_vars

\* update() right after a scheduled update at the same counter value
C14_Witness ==
    /\ last.op = "update"
    /\ update = Len(firings) + 1
    /\ Len(firings) > 0
    /\ cfg.periodic
    /\ last_update = ShiftedUnit(cfg, timestep, episode)
    /\ ~ObserveFires(cfg, timestep, episode, last_update)

\* update() off a frequency boundary
C14_WitnessOffBoundary ==
    /\ last.op = "update"
    /\ update = Len(firings) + 1
    /\ cfg.periodic
    /\ ShiftedUnit(cfg, timestep, episode) > 0
    /\ ShiftedUnit(cfg, timestep, episode) % cfg.frequency # 0

\* update() before the clamped start
C14_WitnessBeforeStart ==
    /\ last.op = "update"
    /\ update = 1
    /\ cfg.periodic
    /\ ShiftedUnit(cfg, timestep, episode) < 0

\* update() with frequency 'never'
C14_WitnessNever ==
    /\ last.op = "update"
    /\ update = 1
    /\ ~cfg.periodic
    /\ timestep > 0

\* The three topology arguments
Triple == <<topology.baseline_policy, topology.baseline_objective,
            topology.baseline_optimizer>>

\* __init__ returned without an error
IsConstructed == opt.pc \notin {"new", "config_error"}

\* C15: with a baseline optimizer module, within one optimize pass the
\* baseline optimizer step has completed before the main pass estimates the
\* reward and before the main optimizer step starts, the two optimizer
\* steps never overlap, and the reward of the main step is computed from
\* the baseline as the baseline step of this pass left it.
C15_BaselineStepFirst ==
    HasOptimizerModule(topology) =>
        /\ "reward" \in opt.done =>
              /\ "baseline_minimize_end" \in opt.done
              /\ opt.reward_version = opt.start_version + 1
        /\ "minimize_begin" \in opt.done => "baseline_minimize_end" \in opt.done
        /\ ~(/\ "baseline_minimize_begin" \in opt.done
             /\ "baseline_minimize_end" \notin opt.done
             /\ "minimize_begin" \in opt.done
             /\ "minimize_end" \notin opt.done)

C15_Witness ==
    /\ HasOptimizerModule(topology)
    /\ topology.baseline_policy
    /\ opt.pc = "ready"
    /\ update > 1
    /\ "minimize_end" \in opt.done
    /\ opt.start_version > 0
    /\ opt.reward_version = opt.start_version + 1

\* C16: with the estimate_advantage key left unset, construction fails for
\* exactly the topologies (no policy, no objective, weight), (no policy, no
\* objective, module) and (policy, no objective, weight), and succeeds for
\* the other nine.
C16_InvalidTopologies ==
    (opt.pc # "new" /\ topology.estimate_advantage = "unset") =>
        (opt.pc = "config_error" <=>
            Triple \in { <<FALSE, FALSE, "weight">>, <<FALSE, FALSE, "module">>,
                         <<TRUE, FALSE, "weight">> })

C16_Witness ==
    /\ opt.pc = "config_error"
    /\ topology.estimate_advantage = "unset"
    /\ Triple = <<TRUE, FALSE, "weight">>

C16_WitnessValid ==
    /\ opt.pc = "ready"
    /\ topology.estimate_advantage = "unset"
    /\ Triple = <<TRUE, FALSE, "module">>

\* C17: for every topology that constructs, is_trainable is true iff a
\* baseline policy or objective is given and no optimizer module is; the
\* default of estimate_horizon is False iff policy, objective and optimizer
\* are all absent and 'late' otherwise; the default of estimate_advantage is
\* True iff a baseline policy is given with neither objective nor optimizer
\* module.
C17_ResolvedTriple ==
    IsConstructed =>
        /\ opt.is_trainable <=>
              /\ topology.baseline_policy \/ topology.baseline_objective
              /\ topology.baseline_optimizer # "module"
        /\ opt.estimate_horizon \in {"false", "late"}
        /\ opt.estimate_horizon = "false" <=>
              Triple = <<FALSE, FALSE, "none">>
        /\ opt.estimate_advantage <=>
              /\ topology.baseline_policy
              /\ ~topology.baseline_objective
              /\ topology.baseline_optimizer # "module"

C17_Witness ==
    /\ opt.pc = "ready"
    /\ Triple = <<TRUE, FALSE, "none">>
    /\ opt.is_trainable
    /\ opt.estimate_horizon = "late"
    /\ opt.estimate_advantage

C18_WitnessFlowing ==
    /\ "reward" \in opt.done
    /\ Triple = <<TRUE, FALSE, "none">>
    /\ ~opt.reward_stopped

\* C19: the loss the main optimizer minimises is the mean objective loss
\* plus regularization, plus the weighted baseline loss exactly when no
\* baseline optimizer module is configured and a baseline objective is
\* present; the weight is then 1.0 or the given float, and None otherwise.
C19_TotalLoss ==
    "minimize_begin" \in opt.done =>
        /\ {"objective", "regularization"} \subseteq opt.loss
        /\ "baseline" \in opt.loss <=>
              /\ topology.baseline_optimizer # "module"
              /\ topology.baseline_objective
        /\ "baseline" \in opt.loss => opt.loss_weight \in {"one", "given"}
        /\ "baseline" \notin opt.loss => opt.loss_weight = "none"

C19_Witness ==
    /\ "minimize_begin" \in opt.done
    /\ Triple = <<FALSE, TRUE, "weight">>
    /\ opt.loss = {"objective", "regularization", "baseline"}
    /\ opt.loss_weight = "given"

C19_WitnessWithout ==
    /\ "minimize_begin" \in opt.done
    /\ Triple = <<TRUE, FALSE, "none">>
    /\ opt.loss = {"objective", "regularization"}

\* The on-policy past horizons of policy and separate baseline differ
HorizonsDiffer == topology.baseline_policy /\ cfg.policy_past # cfg.baseline_past

\* C20: with a separate baseline policy, no baseline optimizer module and
\* differing on-policy past horizons, optimize fails at its assertion and
\* the main optimizer step is never performed (no pass completes); with a
\* baseline optimizer module differing horizons raise no such error.
C20_HorizonMismatch ==
    /\ (IsConstructed /\ HorizonsDiffer /\ ~HasOptimizerModule(topology)) =>
          /\ "assert_horizon" \notin opt.done
          /\ "retrieve_states" \notin opt.done
          /\ "minimize_begin" \notin opt.done
          /\ opt.version["policy"] = 0
          /\ update = 0
    /\ opt.error = "horizon" => (HorizonsDiffer /\ ~HasOptimizerModule(topology))

C20_Witness ==
    /\ opt.pc = "failed"
    /\ HorizonsDiffer
    /\ Triple = <<TRUE, TRUE, "weight">>
    /\ "reward" \in opt.done

C20_WitnessModule ==
    /\ HorizonsDiffer
    /\ HasOptimizerModule(topology)
    /\ opt.pc = "ready"
    /\ update > 0

\* The step that completes the baseline optimizer's minimize
BaselineStepTaken ==
    "baseline_minimize_end" \notin opt.done /\ "baseline_minimize_end" \in opt'.done

\* The step that completes the main optimizer's minimize
MainStepTaken ==
    "minimize_end" \notin opt.done /\ "minimize_end" \in opt'.done

C21_WitnessMainStep ==
    /\ HasOptimizerModule(topology)
    /\ topology.baseline_policy
    /\ opt.pc = "ready"
    /\ update > 1
    /\ opt.version["baseline"] = update
    /\ opt.version["policy"] = update

\* C22: the baseline pass takes both its loss and its optimizer arguments
\* from the baseline objective when one is configured and both from the
\* main objective when none is, and evaluates the loss on the baseline
\* policy (what self.baseline denotes).
C22_BaselinePassObjective ==
    "baseline_minimize_begin" \in opt.done =>
        /\ opt.baseline_loss.objective = opt.baseline_loss.arguments
        /\ topology.baseline_objective <=>
              opt.baseline_loss.objective = "baseline_objective"
        /\ ~topology.baseline_objective <=>
              opt.baseline_loss.objective = "objective"
        /\ opt.baseline_loss.policy = opt.baseline
        /\ topology.baseline_policy => opt.baseline_loss.policy = "baseline"

C22_Witness ==
    /\ "baseline_minimize_end" \in opt.done
    /\ Triple = <<TRUE, TRUE, "module">>
    /\ opt.baseline_loss.objective = "baseline_objective"
    /\ opt.baseline_loss.policy = "baseline"

C22_WitnessFallback ==
    /\ "baseline_minimize_end" \in opt.done
    /\ Triple = <<TRUE, FALSE, "module">>
    /\ opt.baseline_loss.objective = "objective"
    /\ opt.baseline_loss.arguments = "objective"
    /\ opt.baseline_loss.policy = "baseline"

\* C23: construction fails whenever the update mapping has a key outside
\* {batch_size, frequency, start, unit} or the reward_estimation mapping has
\* a key outside its six; an unknown update key is the first error raised,
\* and an unknown reward_estimation key is the error raised when every
\* earlier check passes.
C23_UnknownKeys ==
    opt.pc # "new" =>
        /\ (\E key \in mapping.update : key \notin ValidUpdateKeys) =>
              (opt.pc = "config_error" /\ opt.error = "update")
        /\ (\E key \in mapping.reward_estimation : key \notin ValidRewardKeys) =>
              /\ opt.pc = "config_error"
              /\ opt.error \in {"update", "update[unit]", "update[batch_size]",
                                "assertion", "reward_estimation"}
        /\ opt.error = "reward_estimation" =>
              \E key \in mapping.reward_estimation : key \notin ValidRewardKeys

C23_Witness ==
    /\ opt.pc = "config_error"
    /\ opt.error = "reward_estimation"
    /\ mapping.update = ValidUpdateKeys
    /\ mapping.reward_estimation = {"horizon", "discount", "capacity"}

C23_WitnessUpdate ==
    /\ opt.pc = "config_error"
    /\ opt.error = "update"
    /\ mapping.update = {"unit", "batch_size", "other"}
    /\ mapping.reward_estimation = {"horizon"}

\* C24: in timesteps mode the capacity requested for the memory at
\* construction is at least what a core_update retrieval needs: batch_size
\* records plus the past horizon and the future horizon it passes to
\* retrieve_timesteps.
C24_CapacityCoversRetrieval ==
    (last.op = "update" /\ cfg.unit = "timesteps") =>
        MinCapacity(cfg) >= last.requested + last.past + last.future

\* The retrieval of the last update() is one the requested capacity cannot
\* hold: a baseline past horizon above the policy's and a future horizon
\* of two or more
C24_Undersized ==
    /\ last.op = "update"
    /\ cfg.separate_baseline_policy
    /\ cfg.baseline_past - cfg.future_horizon >= cfg.policy_past
    /\ cfg.future_horizon >= 2
    /\ MinCapacity(cfg) < last.requested + last.past + last.future

\* C25: within one observe call the records of the call are enqueued and
\* their commit to memory is complete before the scheduling check and the
\* update it fires: the update retrieves from the memory that already holds
\* the call's commit, and after the call every record of it is either
\* staged or committed, none lost or half recorded.
C25_ObserveOrdered ==
    IsObserve =>
        /\ Len(staging) + Len(committed) = nrec
        /\ LastBatchIds \subseteq
              {staging[i].id : i \in 1..Len(staging)} \cup
              {committed[i].id : i \in 1..Len(committed)}
        /\ Len(committed) =
              last.committed_before + Len(last.evicted) + Len(last.flushed)
        /\ last.fired =>
              /\ last.held = Len(MemoryRecords(cfg, committed))
              /\ last.valid =
                    Cardinality(ValidTimesteps(cfg, committed, last.past, last.future))

C25_Witness ==
    /\ IsObserve
    /\ last.fired
    /\ last.stored
    /\ Len(committed) > last.committed_before
    /\ last.held = Len(committed)
    /\ last.held > last.committed_before

\* C26: with several parallel interactions feeding the model in interleaved
\* order, the staged records all belong to one interaction at any time, and
\* an observe call of one interaction evicts and flushes only records of
\* that interaction into the memory.
C26_StagingPerInteraction ==
    /\ \A i, j \in 1..Len(staging) :
          (staging[i].par # 0 /\ staging[j].par # 0) =>
              staging[i].par = staging[j].par
    /\ (IsObserve /\ ~last.rejected) =>
          /\ \A i \in 1..Len(last.evicted) : last.evicted[i].par = last.par
          /\ \A i \in 1..Len(last.flushed) : last.flushed[i].par = last.par

\* A terminal observe call of one interaction flushed a record staged by
\* another interaction
C26_MixedFlush ==
    /\ IsObserve
    /\ last.reset_called
    /\ \E i \in 1..Len(last.flushed) :
          last.flushed[i].par \notin {0, last.par}

\* C27: memory contents and estimator staging change only in calls that go
\* through core_experience (observe, experience): act leaves memory,
\* staging, last_update and the update counter unchanged; update() leaves
\* memory and staging unchanged; and an observe call, whether or not it
\* fires an update, leaves in memory exactly what core_experience stored.
C27_OnlyExperienceWrites ==
    [][/\ last'.op = "act" =>
             UNCHANGED <<staging, committed, nrec, last_update, update>>
       /\ last'.op = "update" => UNCHANGED <<staging, committed, nrec>>
       /\ last'.op = "observe" =>
             committed' = committed \o last'.evicted \o last'.flushed
       /\ <<staging, committed>>' # <<staging, committed>> =>
             (last'.op \in {"observe", "experience"} /\ ~last'.rejected)]_vars

C27_Witness ==
    /\ last.op = "update"
    /\ Len(staging) > 0
    /\ Len(committed) > 0
    /\ last.requested > 0

C27_WitnessAct ==
    /\ last.op = "act"
    /\ Len(staging) > 0
    /\ Len(committed) > 0
    /\ update > 0

C27_WitnessFired ==
    /\ IsObserve
    /\ last.fired
    /\ Len(last.evicted) + Len(last.flushed) > 0

\* The last value of the unit counter the scheduler has checked
CheckedUnit ==
    IF cfg.unit = "timesteps"
    THEN (IF last.op = "act" THEN timestep - 1 ELSE timestep)
    ELSE episode

\* The counter values start' + k * frequency, k >= 0, up to CheckedUnit
WindowsUpTo(n) ==
    IF n < ClampedStart(cfg)
    THEN << >>
    ELSE [k \in 1..((n - ClampedStart(cfg)) \div cfg.frequency + 1) |->
            ClampedStart(cfg) + (k - 1) * cfg.frequency]

\* C28: with the unit counter advancing by one between scheduler checks,
\* the scheduled updates fired so far are exactly those at the counter
\* values start' + k * frequency, k >= 0, up to the last value checked: no
\* window is skipped and no other value fires, whether or not frequency
\* divides start'.
C28_NoWindowSkipped == firings = WindowsUpTo(CheckedUnit)

C28_Witness ==
    /\ Len(firings) >= 3
    /\ ClampedStart(cfg) % cfg.frequency # 0
    /\ cfg.frequency > 1
    /\ firings = WindowsUpTo(CheckedUnit)

\* C29: no scheduled update fires while the unit counter is below the
\* clamped start: a check at a counter value below start' is false, also at
\* negative multiples of the frequency, last_update being -1 until the
\* first update and the shifted unit having to exceed it.
C29_NoUpdateBeforeStart ==
    /\ \A i \in 1..Len(firings) : firings[i] >= ClampedStart(cfg)
    /\ last_update >= -1
    /\ (firings = << >>) <=> (last_update = -1)
    /\ (IsObserve /\ ShiftedUnit(cfg, timestep, episode) < 0) =>
          (~last.fired /\ firings = << >> /\ update = manual)

\* A check at a negative multiple of the frequency did not fire
C29_Witness ==
    /\ IsObserve
    /\ ~last.fired
    /\ ShiftedUnit(cfg, timestep, episode) < 0
    /\ ShiftedUnit(cfg, timestep, episode) % cfg.frequency = 0
    /\ cfg.frequency > 1

\* C30: with no baseline policy, a baseline objective and a baseline
\* optimizer module, the separate baseline pass is well defined and runs
\* against the main policy: self.baseline denotes the main policy, no
\* update fails on reading it, and the pass evaluates its loss on the main
\* policy and steps the main policy's variables.
C30_BaselinePassOnMainPolicy ==
    (IsConstructed /\ Triple = <<FALSE, TRUE, "module">>) =>
        /\ opt.baseline = "policy"
        /\ opt.error # "attribute"
        /\ "baseline_minimize_begin" \in opt.done =>
              opt.baseline_loss.policy = "policy"

\* The first update of such a model raises on reading self.baseline
C30_UpdateFails ==
    /\ Triple = <<FALSE, TRUE, "module">>
    /\ opt.pc = "failed"
    /\ opt.error = "attribute"
    /\ opt.done = {}

\* C31: in every constructed model baseline_loss_weight is set if and only
\* if no baseline optimizer module is configured and a baseline objective is
\* present (1.0 without a baseline optimizer argument, the given number when
\* it is a weight), and the assertion of total_loss never fails.
C31_LossWeightSet ==
    IsConstructed =>
        /\ opt.baseline_loss_weight # "none" <=>
              (~HasOptimizerModule(topology) /\ topology.baseline_objective)
        /\ opt.baseline_loss_weight = "one" <=>
              (topology.baseline_optimizer = "none" /\ topology.baseline_objective)
        /\ opt.baseline_loss_weight = "given" <=>
              topology.baseline_optimizer = "weight"
        /\ opt.error # "loss_weight"

\* total_loss ran its assertion branch, and the weight was None
C31_Witness ==
    /\ "minimize_begin" \in opt.done
    /\ ~topology.baseline_objective
    /\ topology.baseline_optimizer = "none"
    /\ opt.baseline_loss_weight = "none"
    /\ opt.loss = {"objective", "regularization"}

\* A model constructed with a weight
C31_WitnessGiven ==
    /\ "minimize_begin" \in opt.done
    /\ topology.baseline_optimizer = "weight"
    /\ opt.baseline_loss_weight = "given"

\* Optimizer steps one completed pass takes on the main policy's variables:
\* the main step, and the baseline step where the baseline pass runs on the
\* main policy
PolicyStepsPerPass ==
    IF HasOptimizerModule(topology) /\ opt.baseline = "policy" THEN 2 ELSE 1

\* C32: the update counter equals the number of completed optimization
\* passes: it changes only at the end of a core_update whose optimize has
\* run all its operations, the optimizer step included, and then by exactly
\* one; a pass that is running or has failed has not been counted.
C32_UpdateCountsPasses ==
    /\ [](opt.pc = "ready" =>
            opt.version["policy"] = update * PolicyStepsPerPass)
    /\ [][update' # update =>
            /\ update' = update + 1
            /\ opt.pc = "running" /\ opt'.pc = "ready"
            /\ opt.done = OptimizeNodes(topology)
            /\ "minimize_end" \in opt.done]_vars
    /\ [][opt'.pc \in {"running", "failed"} => update' = update]_vars

\* Two passes completed and counted
C32_Witness ==
    /\ opt.pc = "ready"
    /\ update = MaxPasses
    /\ opt.version["policy"] = MaxPasses * PolicyStepsPerPass

\* A pass that failed on the horizon assertion was not counted
C32_WitnessFailed ==
    /\ opt.pc = "failed"
    /\ opt.error = "horizon"
    /\ update = 0

\* The last value of the unit counter core_observe has checked, whatever
\* was called since
ObservedUnit ==
    IF cfg.unit = "timesteps"
    THEN timestep - BufferSum(buffer_index)
    ELSE episode

\* C33: update() leaves last_update and the scheduled firings as they are,
\* and with manual passes in between the scheduled updates fire at the
\* same counter values start' + k * frequency as without them.
C33_ManualKeepsSchedule ==
    /\ [][last'.op = "update" =>
            /\ last_update' = last_update
            /\ firings' = firings
            /\ manual' = manual + 1]_vars
    /\ [](firings = WindowsUpTo(ObservedUnit))
    /\ [](update = Len(firings) + manual)

\* A scheduled update fired on its boundary after a manual pass
C33_Witness ==
    /\ manual > 0
    /\ IsObserve
    /\ last.fired
    /\ Len(firings) >= 2
    /\ firings = WindowsUpTo(ObservedUnit)

\* C34: experience() does not run the scheduler: no call to it fires an
\* optimization pass or changes last_update, the update counter or the
\* timestep and episode counters, also when the unit counter sits on a
\* frequency boundary.
C34_ExperienceNeverSchedules ==
    [][last'.op = "experience" =>
          /\ last_update' = last_update
          /\ update' = update
          /\ firings' = firings
          /\ ~last'.fired
          /\ UNCHANGED <<timestep, episode, manual>>]_vars

\* experience() ingested a batch with the unit counter on a frequency
\* boundary at or after the clamped start
C34_Witness ==
    /\ IsCoreExperience
    /\ last.op = "experience"
    /\ last.stored
    /\ cfg.periodic
    /\ ShiftedUnit(cfg, timestep, episode) >= 0
    /\ ShiftedUnit(cfg, timestep, episode) % cfg.frequency = 0
    /\ update = Len(firings) + manual

\* C35: an experience() call that fails one of its assertions does not run
\* core_experience: estimator staging, memory contents, last_update and the
\* update counter are after the call what they were before it.
C35_RejectedChangesNothing ==
    [][(last'.op = "experience" /\ last'.rejected) =>
          /\ staging' = staging
          /\ committed' = committed
          /\ last_update' = last_update
          /\ update' = update
          /\ UNCHANGED <<nrec, open_ep, timestep, episode, buffer_index>>]_vars

\* A rejected call with records staged and records in memory
C35_Witness ==
    /\ last.op = "experience"
    /\ last.rejected
    /\ Len(staging) > 0
    /\ Len(committed) > 0
    /\ Len(staging) + Len(committed) = nrec

\* C36: a scheduled update assigns last_update the current shifted unit
\* before core_update begins: after an observe that fired, last_update is
\* the shifted unit whether the optimization pass completed or failed, a
\* failed pass is not counted, and no counter value fires twice, so a
\* repeated check on the boundary of a failed pass does not fire again.
C36_AssignedBeforeUpdate ==
    /\ (IsObserve /\ last.fired) =>
          last_update = ShiftedUnit(cfg, timestep, episode)
    /\ last.failed => (last.fired /\ last_update > last.lu)
    /\ \A i, j \in 1..Len(firings) : i < j => firings[i] < firings[j]
    /\ HorizonAssertionFails(cfg, topology) => update = 0
    /\ ~HorizonAssertionFails(cfg, topology) => update = Len(firings)

\* A repeated check on the boundary where the pass failed did not fire
C36_Witness ==
    /\ IsObserve
    /\ ~last.fired
    /\ Len(firings) > 0
    /\ firings[Len(firings)] = timestep
    /\ HorizonAssertionFails(cfg, topology)
    /\ update = 0
    /\ last_update = ShiftedUnit(cfg, timestep, episode)

\* The pass of a scheduled update just failed
C36_WitnessFailed == IsObserve /\ last.failed /\ last_update >= 0

\* __init__ ran on a topology with a baseline policy or objective and
\* self.baseline_optimizer None (no optimizer argument, or a weight)
JointBaselineConstruction ==
    /\ opt.pc # "new"
    /\ topology.baseline_policy \/ topology.baseline_objective
    /\ ~HasOptimizerModule(topology)

\* C37 as stated: with a baseline policy or objective and no baseline
\* optimizer module, construction fails if and only if no baseline
\* objective is given and estimate_advantage is explicitly false.
C37_FailsIffAdvantageDisabled ==
    JointBaselineConstruction =>
        (opt.pc = "config_error" <=>
            (~topology.baseline_objective /\ topology.estimate_advantage = "false"))

\* C37: with a baseline policy or objective and no baseline optimizer
\* module, construction fails if and only if no baseline objective is given
\* and either the baseline optimizer is a weight or estimate_advantage is
\* explicitly false: (policy, no objective, no optimizer) is valid while
\* advantage estimation stays enabled, (policy, no objective, weight) never.
C37_FailsWithoutObjective ==
    JointBaselineConstruction =>
        (opt.pc = "config_error" <=>
            /\ ~topology.baseline_objective
            /\ \/ topology.baseline_optimizer = "weight"
               \/ topology.estimate_advantage = "false")

\* Construction failed on the explicitly disabled advantage estimation
C37_Witness ==
    /\ opt.pc = "config_error"
    /\ opt.error = "assertion"
    /\ Triple = <<TRUE, FALSE, "none">>
    /\ topology.estimate_advantage = "false"

\* The same topology constructed with estimate_advantage set to True
C37_WitnessEnabled ==
    /\ opt.pc = "ready"
    /\ Triple = <<TRUE, FALSE, "none">>
    /\ topology.estimate_advantage = "true"

\* A weight without an objective failed with advantage estimation enabled
C37_WitnessWeight ==
    /\ opt.pc = "config_error"
    /\ Triple = <<TRUE, FALSE, "weight">>
    /\ topology.estimate_advantage = "true"

\* C38: the estimator is constructed with the estimate_horizon and
\* estimate_advantage values given in reward_estimation whenever those keys
\* are present and with the topology's defaults only when they are absent;
\* discount defaults to 1.0, estimate_actions and estimate_terminal to
\* False; horizon has no default, without it construction fails.
C38_ExplicitOverDefault ==
    /\ IsConstructed =>
          /\ "horizon" \in mapping.reward_estimation
          /\ opt.estimator.horizon = "given"
          /\ opt.estimator.estimate_horizon =
                IF "estimate_horizon" \in mapping.reward_estimation
                THEN "given" ELSE opt.estimate_horizon
          /\ opt.estimator.estimate_advantage =
                IF "estimate_advantage" \in mapping.reward_estimation
                THEN topology.estimate_advantage
                ELSE IF opt.estimate_advantage THEN "true" ELSE "false"
          /\ opt.estimator.discount =
                IF "discount" \in mapping.reward_estimation THEN "given" ELSE "1.0"
          /\ \A k \in {"estimate_actions", "estimate_terminal"} :
                opt.estimator[k] =
                    IF k \in mapping.reward_estimation THEN "given" ELSE "false"
    /\ (opt.pc # "new" /\ "horizon" \notin mapping.reward_estimation) =>
          opt.pc = "config_error"
    /\ opt.error = "reward_estimation[horizon]" =>
          "horizon" \notin mapping.reward_estimation

\* An explicit estimate_advantage = False where the default is True, and
\* an explicit estimate_horizon
C38_Witness ==
    /\ IsConstructed
    /\ Triple = <<TRUE, TRUE, "none">>
    /\ topology.estimate_advantage = "true"
    /\ ~opt.estimate_advantage
    /\ opt.estimator.estimate_advantage = "true"
    /\ opt.estimator.estimate_horizon = "given"
    /\ opt.estimator.discount = "1.0"

\* Only the horizon given: every other argument is a default
C38_WitnessDefaults ==
    /\ IsConstructed
    /\ mapping.reward_estimation = {"horizon"}
    /\ Triple = <<TRUE, FALSE, "none">>
    /\ opt.estimator.estimate_advantage = "true"
    /\ opt.estimator.estimate_horizon = "late"

\* No horizon: construction failed on the missing key
C38_WitnessNoHorizon ==
    /\ opt.pc = "config_error"
    /\ opt.error = "reward_estimation[horizon]"
    /\ mapping.reward_estimation = {"discount"}

\* C39: with only known keys in the update mapping, construction fails
\* when unit is missing, when unit is neither 'timesteps' nor 'episodes',
\* and when batch_size is missing, checked in that order; in a constructed
\* model the frequency is the given one or, by default, the batch size, and
\* is at most max(2, batch size); start is the given one or 0 by default.
C39_UpdateResolution ==
    /\ (opt.pc # "new" /\ UpdateKeysValid(mapping)) =>
          /\ "unit" \notin mapping.update => opt.error = "update[unit]"
          /\ mapping.unit \notin {"timesteps", "episodes"} =>
                opt.error = "update[unit]"
          /\ (/\ "unit" \in mapping.update
              /\ mapping.unit \in {"timesteps", "episodes"}
              /\ "batch_size" \notin mapping.update) =>
                opt.error = "update[batch_size]"
          /\ opt.error # "none" => opt.pc = "config_error"
    /\ (IsConstructed /\ opt.schedule.periodic) =>
          /\ opt.schedule.frequency =
                IF "frequency" \in mapping.update
                THEN cfg.frequency ELSE cfg.batch_size
          /\ opt.schedule.frequency <= Max(2, cfg.batch_size)
          /\ opt.schedule.start =
                IF "start" \in mapping.update THEN cfg.start ELSE 0

\* Only unit and batch_size given: frequency is the batch size, start 0
C39_Witness ==
    /\ IsConstructed
    /\ mapping.update = {"unit", "batch_size"}
    /\ cfg.batch_size = MaxBatchSize
    /\ cfg.frequency # cfg.batch_size
    /\ cfg.start # 0
    /\ opt.schedule.frequency = MaxBatchSize
    /\ opt.schedule.start = 0

\* unit and batch_size both missing: the missing unit is reported
C39_WitnessOrder ==
    /\ opt.pc = "config_error"
    /\ opt.error = "update[unit]"
    /\ mapping.update = {"frequency"}

\* An invalid unit is reported before the missing batch_size
C39_WitnessUnit ==
    /\ opt.pc = "config_error"
    /\ opt.error = "update[unit]"
    /\ mapping.update = {"unit"}
    /\ mapping.unit = "other"

\* A frequency above max(2, batch size) is refused
C39_WitnessFrequency ==
    /\ opt.pc = "config_error"
    /\ opt.error = "update[frequency]"
    /\ cfg.frequency > Max(2, cfg.batch_size)

====
